---- MODULE Spec2Model ----
(***************************************************************************)
(* Model of the discrete-event engine of smo_food_center.py: the SMO       *)
(* object (clock, buffer, operators, restaurant sources, event heap,       *)
(* event log, counters), its constructor and its step() method, driven by  *)
(* main()'s loop "while smo.time < t_max and smo.step()".                  *)
(*                                                                         *)
(* Times are integers (one tick is a time unit in which every offset       *)
(* i*interval/num_restaurants of the chosen configurations is exact).      *)
(* random.expovariate is a nondeterministic draw from Draws; the draws     *)
(* consumed so far are kept in the history variable draws.                 *)
(* Optional[...] values are sequences of length 0 (None) or 1.             *)
(***************************************************************************)
EXTENDS Integers, Sequences, FiniteSets

VARIABLES
    args,            \* the arguments SMO(...) was called with
    init_error,      \* TRUE iff SMO.__init__ raised ValueError (no engine exists)
    time,            \* SMO.time
    buffer,          \* SMO.buffer: [capacity, orders]
    operators,       \* SMO.operators, operator i at index i+1
    restaurants,     \* SMO.restaurants, source i at index i+1
    event_queue,     \* SMO.event_queue, the heapq list, position p at index p+1
    last_events,     \* SMO.last_events, the event log
    total_generated, \* SMO.total_generated
    total_processed, \* SMO.total_processed
    total_rejected,  \* SMO.total_rejected
    wait_times,      \* SMO.wait_times, source i at index i+1
    step_result,     \* outcome of the last step() call: "none", "True", "False", "TypeError"
    draws,           \* service times drawn so far by random.expovariate
    twin             \* <<>>, or the one-element list holding the state of a second
                     \* engine built with the same arguments (SpecTwin only)

vars == <<args, init_error, time, buffer, operators, restaurants, event_queue,
          last_events, total_generated, total_processed, total_rejected,
          wait_times, step_result, draws, twin>>

----------------------------------------------------------------------------
(* Bounds and input sets *)

\* t_max typed by the user in main(): stepping goes on while smo.time < t_max
MaxTime == 12

\* how many service times are drawn before stepping stops
MaxDraws == 6

\* values random.expovariate may return (any float >= 0.0 in the program)
Draws == {0, 2, 3, 5, 9}

\* constructor arguments tried
NumRestaurants == {0, 1, 2, 3}
NumOperators == {0, 1, 2}
Intervals == {-6, 0, 4, 5, 6}
OpMeans == {-1, 0, 1}
BufferCaps == {-1, 0, 1, 2, 4}

----------------------------------------------------------------------------
(* Event, Order *)

Event(t, etype, restaurant_id, order_id, operator_id, buffer_pos, wait_time) ==
    [time |-> t, etype |-> etype, restaurant_id |-> restaurant_id,
     order_id |-> order_id, operator_id |-> operator_id,
     buffer_pos |-> buffer_pos, wait_time |-> wait_time]

Order(restaurant_id, order_id, timestamp) ==
    [restaurant_id |-> restaurant_id, order_id |-> order_id, timestamp |-> timestamp]

\* The fields after time and etype, in declaration order, as the generated
\* __lt__ compares them.
EventTail(e) == <<e.restaurant_id, e.order_id, e.operator_id, e.buffer_pos, e.wait_time>>

RECURSIVE SeqLt(_, _)
SeqLt(a, b) ==
    IF a = <<>> \/ b = <<>> THEN FALSE
    ELSE IF Head(a) # Head(b) THEN Head(a) < Head(b)
    ELSE SeqLt(Tail(a), Tail(b))

\* a < b raises TypeError: the tuples first differ at etype, and EventType
\* (a plain Enum) defines no ordering.
EventLtRaises(a, b) == a.time = b.time /\ a.etype # b.etype

\* a < b when it does not raise
EventLt(a, b) ==
    IF a.time # b.time THEN a.time < b.time
    ELSE SeqLt(EventTail(a), EventTail(b))

----------------------------------------------------------------------------
(* heapq on a list of Event (CPython's _heapq: swaps are made in place, so a *)
(* comparison that raises leaves the swaps made before it)                  *)

Swap(heap, i, j) == [heap EXCEPT ![i + 1] = heap[j + 1], ![j + 1] = heap[i + 1]]

RECURSIVE siftdown(_, _, _)
siftdown(heap, startpos, pos) ==
    IF pos > startpos
    THEN LET parentpos == (pos - 1) \div 2
             newitem == heap[pos + 1]
             parent == heap[parentpos + 1]
         IN  IF EventLtRaises(newitem, parent)
             THEN [heap |-> heap, raised |-> TRUE]
             ELSE IF EventLt(newitem, parent)
                  THEN siftdown(Swap(heap, pos, parentpos), startpos, parentpos)
                  ELSE [heap |-> heap, raised |-> FALSE]
    ELSE [heap |-> heap, raised |-> FALSE]

RECURSIVE siftup_from(_, _, _)
siftup_from(heap, startpos, pos) ==
    LET endpos == Len(heap)
        limit == endpos \div 2
        left == 2 * pos + 1
    IN  IF pos < limit
        THEN IF left + 1 < endpos /\ EventLtRaises(heap[left + 1], heap[left + 2])
             THEN [heap |-> heap, raised |-> TRUE]
             ELSE LET childpos ==
                          IF left + 1 < endpos /\ ~EventLt(heap[left + 1], heap[left + 2])
                          THEN left + 1 ELSE left
                  IN  siftup_from(Swap(heap, childpos, pos), startpos, childpos)
        ELSE siftdown(heap, startpos, pos)

siftup(heap, pos) == siftup_from(heap, pos, pos)

heappush(heap, item) == siftdown(Append(heap, item), 0, Len(heap))

\* heap is not empty. When the sift raises, the smallest item has already
\* been overwritten by the last one and is returned to nobody.
heappop(heap) ==
    LET n == Len(heap) - 1
        lastelt == heap[n + 1]
        rest == SubSeq(heap, 1, n)
    IN  IF n = 0
        THEN [heap |-> rest, item |-> lastelt, raised |-> FALSE]
        ELSE LET r == siftup([rest EXCEPT ![1] = lastelt], 0)
             IN  [heap |-> r.heap, item |-> heap[1], raised |-> r.raised]

----------------------------------------------------------------------------
(* Buffer *)

BufferInit(capacity) == [capacity |-> capacity, orders |-> <<>>]

is_full(buf) == Len(buf.orders) >= buf.capacity

is_empty(buf) == Len(buf.orders) = 0

\* Mutation of add_fifo: a full buffer drops its oldest entry for the new
\* order and still reports -1.
add_fifo_drop_oldest(buf, order) ==
    IF is_full(buf)
    THEN [buf |-> IF buf.orders = <<>> THEN buf
                  ELSE [buf EXCEPT !.orders = Append(Tail(buf.orders), order)],
          pos |-> -1]
    ELSE [buf |-> [buf EXCEPT !.orders = Append(buf.orders, order)],
          pos |-> Len(buf.orders)]

\* returns the buffer and the position, -1 when full
add_fifo(buf, order) ==
    IF is_full(buf)
    THEN [buf |-> buf, pos |-> -1]
    ELSE [buf |-> [buf EXCEPT !.orders = Append(buf.orders, order)],
          pos |-> Len(buf.orders)]

\* Mutation of RemoveAt: the entry is read but stays in the list.
KeepAt(s, k) == s

RemoveAt(s, k) == SubSeq(s, 1, k - 1) \o SubSeq(s, k + 1, Len(s))

\* Mutation of FirstIndexOf: the scan keeps the last match.
LastIndexOf(orders, restaurant_id) ==
    IF \E i \in 1..Len(orders) : orders[i].restaurant_id = restaurant_id
    THEN CHOOSE i \in 1..Len(orders) :
             /\ orders[i].restaurant_id = restaurant_id
             /\ \A j \in (i + 1)..Len(orders) : orders[j].restaurant_id # restaurant_id
    ELSE 0

\* index (1-based) of the first order of restaurant_id, 0 when there is none
FirstIndexOf(orders, restaurant_id) ==
    IF \E i \in 1..Len(orders) : orders[i].restaurant_id = restaurant_id
    THEN CHOOSE i \in 1..Len(orders) :
             /\ orders[i].restaurant_id = restaurant_id
             /\ \A j \in 1..(i - 1) : orders[j].restaurant_id # restaurant_id
    ELSE 0

\* returns the buffer and Optional[Order]
pop_first_by_restaurant(buf, restaurant_id) ==
    LET i == FirstIndexOf(buf.orders, restaurant_id)
    IN  IF i = 0
        THEN [buf |-> buf, order |-> <<>>]
        ELSE [buf |-> [buf EXCEPT !.orders = RemoveAt(buf.orders, i)],
              order |-> <<buf.orders[i]>>]

\* the set behind sorted({...}); its sorted list starts with the minimum
restaurants_present(buf) == {buf.orders[i].restaurant_id : i \in 1..Len(buf.orders)}

----------------------------------------------------------------------------
(* RestaurantSource *)

\* Mutation of RestaurantSourceRaises: the check is "interval < 0".
RestaurantSourceRaisesOnNegative(interval) == interval < 0

RestaurantSourceRaises(interval) == interval <= 0

\* Mutation of RestaurantSourceInit: the first order comes one interval
\* after start_offset.
RestaurantSourceInitLate(restaurant_id, interval, start_offset) ==
    [restaurant_id |-> restaurant_id, interval |-> interval,
     generated |-> 0, next_time |-> start_offset + interval]

RestaurantSourceInit(restaurant_id, interval, start_offset) ==
    [restaurant_id |-> restaurant_id, interval |-> interval,
     generated |-> 0, next_time |-> start_offset]

\* returns the event and the source after the call
generate_event(src) ==
    [ev |-> Event(src.next_time, "ORDER_GENERATED", src.restaurant_id,
                  src.generated, -1, -1, 0),
     src |-> [src EXCEPT !.generated = src.generated + 1,
                         !.next_time = src.next_time + src.interval]]

----------------------------------------------------------------------------
(* Operator *)

OperatorRaises(mean_service_time) == mean_service_time <= 0

OperatorInit(operator_id, mean_service_time) ==
    [operator_id |-> operator_id, mean_service_time |-> mean_service_time,
     busy |-> FALSE, current_order |-> <<>>, batch_restaurant_id |-> <<>>]

\* Mutation of start_service: wait_time is measured to the end of the
\* service instead of its start.
start_service_wait_to_finish(op, order, current_time, dt) ==
    [ev |-> Event(current_time + dt, "OPERATOR_FREE", order.restaurant_id,
                  order.order_id, op.operator_id, -1,
                  current_time + dt - order.timestamp),
     op |-> [op EXCEPT !.busy = TRUE,
                       !.current_order = <<order>>,
                       !.batch_restaurant_id = <<order.restaurant_id>>]]

\* Mutation of start_service: the finish time is counted from the order's
\* arrival instead of current_time.
start_service_from_arrival(op, order, current_time, dt) ==
    [ev |-> Event(order.timestamp + dt, "OPERATOR_FREE", order.restaurant_id,
                  order.order_id, op.operator_id, -1,
                  current_time - order.timestamp),
     op |-> [op EXCEPT !.busy = TRUE,
                       !.current_order = <<order>>,
                       !.batch_restaurant_id = <<order.restaurant_id>>]]

\* dt is the value random.expovariate returns; returns the OPERATOR_FREE
\* event and the operator after the call
start_service(op, order, current_time, dt) ==
    [ev |-> Event(current_time + dt, "OPERATOR_FREE", order.restaurant_id,
                  order.order_id, op.operator_id, -1,
                  current_time - order.timestamp),
     op |-> [op EXCEPT !.busy = TRUE,
                       !.current_order = <<order>>,
                       !.batch_restaurant_id = <<order.restaurant_id>>]]

\* Mutation of free: the release also forgets the batch.
free_clearing_batch(op) ==
    [op EXCEPT !.busy = FALSE, !.current_order = <<>>, !.batch_restaurant_id = <<>>]

free(op) == [op EXCEPT !.busy = FALSE, !.current_order = <<>>]

----------------------------------------------------------------------------
(* SMO.__init__ *)

\* offsets[i] = (i * interval) / num_restaurants
Offset(i, interval, num_restaurants) == (i * interval) \div num_restaurants

\* the configurations whose offsets are whole ticks
ExactOffsets(a) ==
    a.num_restaurants = 0 \/ a.interval % a.num_restaurants = 0

Args ==
    {a \in [num_restaurants : NumRestaurants, num_operators : NumOperators,
            interval : Intervals, op_mean : OpMeans, buffer_cap : BufferCaps] :
        ExactOffsets(a)}

\* __init__ raises ValueError: from Operator(i, op_mean) for the first
\* operator, or from RestaurantSource(i, interval, ...) for the first source
InitRaises(a) ==
    \/ a.num_operators >= 1 /\ OperatorRaises(a.op_mean)
    \/ a.num_restaurants >= 1 /\ RestaurantSourceRaises(a.interval)

InitRestaurants(a) ==
    [i \in 1..a.num_restaurants |->
        RestaurantSourceInit(i - 1, a.interval,
                             Offset(i - 1, a.interval, a.num_restaurants))]

\* the heap after "for r in self.restaurants: heappush(queue, r.generate_event())";
\* the pushed events are all ORDER_GENERATED, so no comparison raises
RECURSIVE InitQueue(_, _)
InitQueue(rs, k) ==
    IF k = 0 THEN <<>>
    ELSE heappush(InitQueue(rs, k - 1), generate_event(rs[k]).ev).heap

Init ==
    \E a \in Args :
        /\ args = a
        /\ init_error = InitRaises(a)
        /\ time = 0
        /\ buffer = BufferInit(a.buffer_cap)
        /\ operators = IF InitRaises(a) THEN <<>>
                       ELSE [i \in 1..a.num_operators |-> OperatorInit(i - 1, a.op_mean)]
        /\ restaurants = IF InitRaises(a) THEN <<>>
                         ELSE [i \in 1..a.num_restaurants |->
                                  generate_event(InitRestaurants(a)[i]).src]
        /\ event_queue = IF InitRaises(a) THEN <<>>
                         ELSE InitQueue(InitRestaurants(a), a.num_restaurants)
        /\ last_events = <<>>
        /\ total_generated = 0
        /\ total_processed = 0
        /\ total_rejected = 0
        /\ wait_times = IF InitRaises(a) THEN <<>>
                        ELSE [i \in 1..a.num_restaurants |-> <<>>]
        /\ step_result = "none"
        /\ draws = <<>>
        /\ twin = <<>>

----------------------------------------------------------------------------
(* SMO: dispatch rules *)

MinOf(S) == CHOOSE m \in S : \A x \in S : m <= x

\* Mutation of get_free_operator_d2p1: only the operator with the smallest
\* operator_id is looked at.
get_free_operator_lowest_only(ops) ==
    IF Len(ops) = 0 THEN <<>>
    ELSE LET i == CHOOSE i \in 1..Len(ops) :
                      \A j \in 1..Len(ops) : ops[i].operator_id <= ops[j].operator_id
         IN  IF ops[i].busy THEN <<>> ELSE <<i>>

\* Mutation of get_free_operator_d2p1: the busy flag is not looked at.
get_first_operator(ops) ==
    IF Len(ops) = 0 THEN <<>>
    ELSE <<CHOOSE i \in 1..Len(ops) :
               \A j \in 1..Len(ops) : ops[i].operator_id <= ops[j].operator_id>>

\* Optional index (1-based) of the free operator with the smallest operator_id
get_free_operator_d2p1(ops) ==
    LET free_ids == {i \in 1..Len(ops) : ~ops[i].busy}
    IN  IF free_ids = {} THEN <<>>
        ELSE <<CHOOSE i \in free_ids :
                   \A j \in free_ids : ops[i].operator_id <= ops[j].operator_id>>

\* Mutation of select_restaurant_for_batch: the source of the buffer's head.
select_head_restaurant(buf) ==
    IF buf.orders = <<>> THEN <<>> ELSE <<buf.orders[1].restaurant_id>>

\* Optional restaurant id
select_restaurant_for_batch(buf) ==
    IF restaurants_present(buf) = {} THEN <<>> ELSE <<MinOf(restaurants_present(buf))>>

\* Mutation of take_order_from_buffer_d2b5: the batch is never continued,
\* every completion selects the lowest source id in the buffer.
take_order_lowest_source(buf, op) ==
    LET new_rest == select_restaurant_for_batch(buf)
    IN  IF new_rest = <<>> THEN [buf |-> buf, op |-> op, order |-> <<>>]
        ELSE LET r == pop_first_by_restaurant(buf, new_rest[1])
             IN  [buf |-> r.buf,
                  op |-> [op EXCEPT !.batch_restaurant_id = new_rest],
                  order |-> r.order]

\* returns the buffer, the operator and Optional[Order]
take_order_from_buffer_d2b5(buf, op) ==
    LET cont == IF op.batch_restaurant_id # <<>>
                THEN pop_first_by_restaurant(buf, op.batch_restaurant_id[1])
                ELSE [buf |-> buf, order |-> <<>>]
        new_rest == select_restaurant_for_batch(buf)
    IN  IF is_empty(buf) THEN [buf |-> buf, op |-> op, order |-> <<>>]
        ELSE IF cont.order # <<>> THEN [buf |-> cont.buf, op |-> op, order |-> cont.order]
        ELSE IF new_rest = <<>> THEN [buf |-> buf, op |-> op, order |-> <<>>]
        ELSE LET r == pop_first_by_restaurant(buf, new_rest[1])
             IN  [buf |-> r.buf,
                  op |-> [op EXCEPT !.batch_restaurant_id = new_rest],
                  order |-> r.order]

----------------------------------------------------------------------------
(* SMO.step *)

\* main() calls step() while smo.time < t_max; an uncaught exception ends
\* the program
CanStep ==
    /\ ~init_error
    /\ step_result # "TypeError"
    /\ time < MaxTime
    /\ Len(draws) < MaxDraws

\* "if not self.event_queue: return False"
step_empty ==
    /\ CanStep
    /\ event_queue = <<>>
    /\ step_result' = "False"
    /\ UNCHANGED <<args, init_error, time, buffer, operators, restaurants,
                   event_queue, last_events, total_generated, total_processed,
                   total_rejected, wait_times, draws>>

\* heapq.heappop raises TypeError
step_pop_raises ==
    /\ CanStep
    /\ event_queue # <<>>
    /\ heappop(event_queue).raised
    /\ event_queue' = heappop(event_queue).heap
    /\ step_result' = "TypeError"
    /\ UNCHANGED <<args, init_error, time, buffer, operators, restaurants,
                   last_events, total_generated, total_processed,
                   total_rejected, wait_times, draws>>

\* Mutation of step_ORDER_GENERATED: the order goes to any free operator
\* (a scan of the operators in no fixed order) instead of the one with the
\* smallest operator_id.
step_ORDER_GENERATED_any_free(dt) ==
    /\ CanStep
    /\ event_queue # <<>>
    /\ ~heappop(event_queue).raised
    /\ heappop(event_queue).item.etype = "ORDER_GENERATED"
    /\ LET ev == heappop(event_queue).item
           gen == generate_event(restaurants[ev.restaurant_id + 1])
           pushed == heappush(heappop(event_queue).heap, gen.ev)
           order == Order(ev.restaurant_id, ev.order_id, ev.time)
           free_ops == {i \in 1..Len(operators) : ~operators[i].busy}
       IN  /\ time' = ev.time
           /\ total_generated' = total_generated + 1
           /\ restaurants' = [restaurants EXCEPT ![ev.restaurant_id + 1] = gen.src]
           /\ IF pushed.raised
              THEN /\ event_queue' = pushed.heap
                   /\ last_events' = Append(last_events, ev)
                   /\ step_result' = "TypeError"
                   /\ UNCHANGED <<buffer, operators, total_rejected, draws>>
              ELSE IF free_ops # {}
              THEN \E i \in free_ops :
                   LET started == start_service(operators[i], order, ev.time, dt)
                       pushed2 == heappush(pushed.heap, started.ev)
                   IN  /\ last_events' = last_events \o
                              <<ev, Event(ev.time, "ORDER_TO_OPERATOR", order.restaurant_id,
                                          order.order_id, operators[i].operator_id, -1, 0)>>
                       /\ operators' = [operators EXCEPT ![i] = started.op]
                       /\ draws' = Append(draws, dt)
                       /\ event_queue' = pushed2.heap
                       /\ step_result' = IF pushed2.raised THEN "TypeError" ELSE "True"
                       /\ UNCHANGED <<buffer, total_rejected>>
              ELSE LET added == add_fifo(buffer, order)
                   IN  /\ buffer' = added.buf
                       /\ event_queue' = pushed.heap
                       /\ step_result' = "True"
                       /\ IF added.pos # -1
                          THEN /\ last_events' = last_events \o
                                      <<ev, Event(ev.time, "ORDER_TO_BUFFER", order.restaurant_id,
                                                  order.order_id, -1, added.pos, 0)>>
                               /\ UNCHANGED total_rejected
                          ELSE /\ total_rejected' = total_rejected + 1
                               /\ last_events' = last_events \o
                                      <<ev, Event(ev.time, "ORDER_REJECTED", order.restaurant_id,
                                                  order.order_id, -1, -1, 0)>>
                       /\ UNCHANGED <<operators, draws>>
    /\ UNCHANGED <<args, init_error, total_processed, wait_times>>

\* the popped event is ORDER_GENERATED
step_ORDER_GENERATED(dt) ==
    /\ CanStep
    /\ event_queue # <<>>
    /\ ~heappop(event_queue).raised
    /\ heappop(event_queue).item.etype = "ORDER_GENERATED"
    /\ LET ev == heappop(event_queue).item
           gen == generate_event(restaurants[ev.restaurant_id + 1])
           pushed == heappush(heappop(event_queue).heap, gen.ev)
           order == Order(ev.restaurant_id, ev.order_id, ev.time)
           op == get_free_operator_d2p1(operators)
       IN  /\ time' = ev.time
           /\ total_generated' = total_generated + 1
           /\ restaurants' = [restaurants EXCEPT ![ev.restaurant_id + 1] = gen.src]
           /\ IF pushed.raised
              THEN \* push_event(src.generate_event()) raises
                   /\ event_queue' = pushed.heap
                   /\ last_events' = Append(last_events, ev)
                   /\ step_result' = "TypeError"
                   /\ UNCHANGED <<buffer, operators, total_rejected, draws>>
              ELSE IF op # <<>>
              THEN LET started == start_service(operators[op[1]], order, ev.time, dt)
                       pushed2 == heappush(pushed.heap, started.ev)
                   IN  /\ last_events' = last_events \o
                              <<ev, Event(ev.time, "ORDER_TO_OPERATOR", order.restaurant_id,
                                          order.order_id, operators[op[1]].operator_id, -1, 0)>>
                       /\ operators' = [operators EXCEPT ![op[1]] = started.op]
                       /\ draws' = Append(draws, dt)
                       /\ event_queue' = pushed2.heap
                       /\ step_result' = IF pushed2.raised THEN "TypeError" ELSE "True"
                       /\ UNCHANGED <<buffer, total_rejected>>
              ELSE LET added == add_fifo(buffer, order)
                   IN  /\ buffer' = added.buf
                       /\ event_queue' = pushed.heap
                       /\ step_result' = "True"
                       /\ IF added.pos # -1
                          THEN /\ last_events' = last_events \o
                                      <<ev, Event(ev.time, "ORDER_TO_BUFFER", order.restaurant_id,
                                                  order.order_id, -1, added.pos, 0)>>
                               /\ UNCHANGED total_rejected
                          ELSE /\ total_rejected' = total_rejected + 1
                               /\ last_events' = last_events \o
                                      <<ev, Event(ev.time, "ORDER_REJECTED", order.restaurant_id,
                                                  order.order_id, -1, -1, 0)>>
                       /\ UNCHANGED <<operators, draws>>
    /\ UNCHANGED <<args, init_error, total_processed, wait_times>>

\* the popped event is OPERATOR_FREE
step_OPERATOR_FREE(dt) ==
    /\ CanStep
    /\ event_queue # <<>>
    /\ ~heappop(event_queue).raised
    /\ heappop(event_queue).item.etype = "OPERATOR_FREE"
    /\ LET ev == heappop(event_queue).item
           taken == take_order_from_buffer_d2b5(buffer, free(operators[ev.operator_id + 1]))
       IN  /\ time' = ev.time
           /\ total_processed' = total_processed + 1
           /\ wait_times' = [wait_times EXCEPT ![ev.restaurant_id + 1] =
                                 Append(wait_times[ev.restaurant_id + 1], ev.wait_time)]
           /\ buffer' = taken.buf
           /\ IF taken.order # <<>>
              THEN LET next_order == taken.order[1]
                       started == start_service(taken.op, next_order, ev.time, dt)
                       pushed == heappush(heappop(event_queue).heap, started.ev)
                   IN  /\ last_events' = last_events \o
                              <<ev, Event(ev.time, "ORDER_TO_OPERATOR", next_order.restaurant_id,
                                          next_order.order_id, taken.op.operator_id, -1,
                                          ev.time - next_order.timestamp)>>
                       /\ operators' = [operators EXCEPT ![ev.operator_id + 1] = started.op]
                       /\ draws' = Append(draws, dt)
                       /\ event_queue' = pushed.heap
                       /\ step_result' = IF pushed.raised THEN "TypeError" ELSE "True"
              ELSE /\ last_events' = Append(last_events, ev)
                   /\ operators' = [operators EXCEPT ![ev.operator_id + 1] = taken.op]
                   /\ event_queue' = heappop(event_queue).heap
                   /\ step_result' = "True"
                   /\ UNCHANGED draws
    /\ UNCHANGED <<args, init_error, restaurants, total_generated, total_rejected>>

\* one engine: twin is not used
Next ==
    \/ step_empty /\ UNCHANGED twin
    \/ step_pop_raises /\ UNCHANGED twin
    \/ \E dt \in Draws : step_ORDER_GENERATED(dt) /\ UNCHANGED twin
    \/ \E dt \in Draws : step_OPERATOR_FREE(dt) /\ UNCHANGED twin

Spec == Init /\ [][Next]_vars

----------------------------------------------------------------------------
(* Claims *)

BusyCount == Cardinality({i \in 1..Len(operators) : operators[i].busy})

\* the step that has just been taken popped an event and logged it
Popped == Len(last_events') > Len(last_events)

\* the event popped by the step that has just been taken
PoppedEvent == last_events'[Len(last_events) + 1]

\* the step that has just been taken processed an arrival
Arrival == Popped /\ PoppedEvent.etype = "ORDER_GENERATED"

\* the step that has just been taken processed a completion
Completion == Popped /\ PoppedEvent.etype = "OPERATOR_FREE"

\* the order an arrival step creates
ArrivedOrder == Order(PoppedEvent.restaurant_id, PoppedEvent.order_id, PoppedEvent.time)

\* what the step logged after the popped event, "none" if nothing
LoggedAfterPop ==
    IF Len(last_events') = Len(last_events) + 2
    THEN last_events'[Len(last_events) + 2].etype
    ELSE "none"

NoIdleOperator == \A i \in 1..Len(operators) : operators[i].busy

\* index of the earliest-inserted buffer entry of source r (0 if none)
EarliestOf(orders, r) ==
    LET S == {k \in 1..Len(orders) : orders[k].restaurant_id = r}
    IN  IF S = {} THEN 0 ELSE CHOOSE k \in S : \A j \in S : k <= j

WithoutEntry(orders, k) ==
    [j \in 1..(Len(orders) - 1) |-> IF j < k THEN orders[j] ELSE orders[j + 1]]

----------------------------------------------------------------------------
\* C1: after any sequence of step() calls total_generated equals
\* total_processed + total_rejected + the number of orders in the buffer
\* + the number of busy servers.
C1_Conservation ==
    total_generated = total_processed + total_rejected + Len(buffer.orders) + BusyCount

\* The same equality after every step() call that returned.
C1_ConservationWhenReturned ==
    step_result # "TypeError" => C1_Conservation

----------------------------------------------------------------------------
AssignedOnArrival ==
    \E i \in 1..Len(operators) :
        /\ ~operators[i].busy
        /\ operators'[i].busy
        /\ operators'[i].current_order = <<ArrivedOrder>>

InsertedOnArrival == buffer'.orders = Append(buffer.orders, ArrivedOrder)

RejectedOnArrival == total_rejected' = total_rejected + 1

C2_Outcome ==
    /\ \/ /\ AssignedOnArrival /\ LoggedAfterPop = "ORDER_TO_OPERATOR"
          /\ buffer' = buffer /\ total_rejected' = total_rejected
       \/ /\ InsertedOnArrival /\ LoggedAfterPop = "ORDER_TO_BUFFER"
          /\ operators' = operators /\ total_rejected' = total_rejected
       \/ /\ RejectedOnArrival /\ LoggedAfterPop = "ORDER_REJECTED"
          /\ operators' = operators /\ buffer' = buffer
    /\ RejectedOnArrival <=> (NoIdleOperator /\ Len(buffer.orders) = buffer.capacity)

\* C2: for every capacity C >= 0 the buffer length stays within 0..C, and
\* every processed arrival ends in exactly one recorded outcome (assigned to
\* a server, inserted in the buffer, rejected); it is rejected exactly when
\* no server is idle and the buffer holds C orders.
C2_CapacityAndOutcome ==
    [][buffer.capacity >= 0 =>
          /\ Len(buffer'.orders) <= buffer.capacity
          /\ Arrival => C2_Outcome]_vars

\* The same for every step() call that returned.
C2_CapacityAndOutcomeWhenReturned ==
    [][buffer.capacity >= 0 =>
          /\ Len(buffer'.orders) <= buffer.capacity
          /\ (Arrival /\ step_result' # "TypeError") => C2_Outcome]_vars

----------------------------------------------------------------------------
\* C3: the buffer changes only by an append at the tail or by the removal
\* of one entry that has no earlier entry of the same source, the remaining
\* entries keeping their relative order; so two buffered orders of one
\* source leave the buffer in the order they were inserted.
C3_FifoWithinSource ==
    [][buffer'.orders # buffer.orders =>
          \/ /\ Arrival
             /\ buffer'.orders = Append(buffer.orders, ArrivedOrder)
          \/ \E k \in 1..Len(buffer.orders) :
                /\ buffer'.orders = WithoutEntry(buffer.orders, k)
                /\ \A j \in 1..(k - 1) :
                       buffer.orders[j].restaurant_id # buffer.orders[k].restaurant_id]_vars

\* An order was taken from the buffer while a later order of the same source
\* and an earlier order of another source stay behind.
C3_Witness ==
    LET n == Len(last_events)
    IN  /\ n >= 2
        /\ last_events[n - 1].etype = "OPERATOR_FREE"
        /\ last_events[n].etype = "ORDER_TO_OPERATOR"
        /\ \E k \in 1..Len(buffer.orders) :
               /\ buffer.orders[k].restaurant_id = last_events[n].restaurant_id
               /\ buffer.orders[k].order_id > last_events[n].order_id
        /\ \E k \in 1..Len(buffer.orders) :
               /\ buffer.orders[k].restaurant_id # last_events[n].restaurant_id
               /\ buffer.orders[k].timestamp < last_events[n].time - last_events[n].wait_time

----------------------------------------------------------------------------
\* C4: the clock never decreases from one step to the next, and no event
\* on the calendar is earlier than the clock.
C4_MonotonicClock ==
    [][/\ time' >= time
       /\ \A i \in 1..Len(event_queue') : event_queue'[i].time >= time']_vars

\* The clock has advanced past an order that waited in the buffer and is
\* now in service.
C4_Witness ==
    /\ time > 0
    /\ \E i \in 1..Len(operators) :
           /\ operators[i].busy
           /\ operators[i].current_order[1].timestamp < time
           /\ \E j \in 1..Len(event_queue) :
                  /\ event_queue[j].etype = "OPERATOR_FREE"
                  /\ event_queue[j].operator_id = operators[i].operator_id
                  /\ event_queue[j].wait_time > 0

----------------------------------------------------------------------------
C5_BusyIffOrder ==
    \A i \in 1..Len(operators) :
        (operators[i].current_order # <<>>) <=> operators[i].busy

\* an operator that gets a new order was idle, or the step is the completion
\* of the order it held
C5_NoOverwrite ==
    \A i \in 1..Len(operators) :
        (operators'[i].current_order # <<>>
            /\ operators'[i].current_order # operators[i].current_order) =>
        \/ ~operators[i].busy
        \/ /\ Completion
           /\ PoppedEvent.operator_id = operators[i].operator_id
           /\ PoppedEvent.restaurant_id = operators[i].current_order[1].restaurant_id
           /\ PoppedEvent.order_id = operators[i].current_order[1].order_id

\* C5: for every server current_order is non-null iff busy is set, and a
\* server is given an order only when it holds none.
C5_ServerExclusivity ==
    [][C5_BusyIffOrder /\ C5_BusyIffOrder' /\ C5_NoOverwrite]_vars

\* An arrival found operator 0 busy and operator 1 idle, and was assigned.
C5_Witness ==
    /\ Len(operators) = 2
    /\ operators[1].busy /\ operators[2].busy
    /\ operators[1].current_order # operators[2].current_order

----------------------------------------------------------------------------
\* C6: two calendar events with the same timestamp (an arrival and a
\* completion included) are ordered by a fixed tie-break and step() pops and
\* processes them without failing.
C6_TiesNeverFail == step_result # "TypeError"

----------------------------------------------------------------------------
\* C7 as claimed: a non-positive interval, mean service time or buffer
\* capacity makes construction fail, so no such engine processes a step.
C7_NonPositiveFails ==
    (args.interval <= 0 \/ args.op_mean <= 0 \/ args.buffer_cap <= 0) =>
        (init_error /\ step_result = "none" /\ last_events = <<>>)

\* C7 amended: construction fails exactly when there is at least one source
\* and the interval is non-positive, or at least one server and the mean
\* service time is non-positive; an engine that failed to construct never
\* processes a step. The buffer capacity is not validated.
C7_ConstructionFailsExactlyWhen ==
    /\ init_error <=>
           \/ args.num_restaurants >= 1 /\ args.interval <= 0
           \/ args.num_operators >= 1 /\ args.op_mean <= 0
    /\ init_error =>
           (step_result = "none" /\ last_events = <<>> /\ event_queue = <<>>)

\* Construction with a non-positive interval failed.
C7_Witness ==
    init_error /\ args.interval <= 0 /\ args.num_restaurants >= 1 /\ args.op_mean > 0

----------------------------------------------------------------------------
LowestSourcePresent(orders) ==
    LET S == {orders[k].restaurant_id : k \in 1..Len(orders)}
    IN  CHOOSE m \in S : \A x \in S : m <= x

\* C8: when a server completes, the buffer is not empty and holds no order
\* of the server's affinity source, the server takes the earliest-inserted
\* order of the lowest source id in the buffer and its affinity becomes that
\* source.
C8_LowestSourceWhenBatchEnds ==
    [][Completion =>
          LET i == PoppedEvent.operator_id + 1
              aff == operators[i].batch_restaurant_id
              low == LowestSourcePresent(buffer.orders)
              k == EarliestOf(buffer.orders, low)
          IN  (buffer.orders # <<>> /\ (aff = <<>> \/ EarliestOf(buffer.orders, aff[1]) = 0)) =>
                  /\ operators'[i].busy
                  /\ operators'[i].current_order = <<buffer.orders[k]>>
                  /\ operators'[i].batch_restaurant_id = <<low>>
                  /\ buffer'.orders = WithoutEntry(buffer.orders, k)]_vars

\* A server whose batch had ended took an order while an order of a higher
\* source id that had arrived earlier stays in the buffer.
C8_Witness ==
    LET n == Len(last_events)
    IN  /\ n >= 2
        /\ last_events[n - 1].etype = "OPERATOR_FREE"
        /\ last_events[n].etype = "ORDER_TO_OPERATOR"
        /\ last_events[n].restaurant_id # last_events[n - 1].restaurant_id
        /\ \E k \in 1..Len(buffer.orders) :
               /\ buffer.orders[k].restaurant_id > last_events[n].restaurant_id
               /\ buffer.orders[k].timestamp < last_events[n].time - last_events[n].wait_time

----------------------------------------------------------------------------
\* 1 source with interval 5, 1 server, buffer capacity 1, every service
\* time drawn so far is 3
C9_Scenario ==
    /\ ~init_error
    /\ args.num_restaurants = 1 /\ args.num_operators = 1
    /\ args.interval = 5 /\ args.buffer_cap = 1
    /\ \A i \in 1..Len(draws) : draws[i] = 3

C9_Arrived(order_id, t) ==
    \A k \in 1..Len(last_events) :
        (last_events[k].etype = "ORDER_GENERATED" /\ last_events[k].order_id = order_id)
            => last_events[k].time = t

\* C9 as claimed: order 0 arrives at t=5 and order 1 at t=10, both start
\* with wait 0, the server completes order 0 at t=8; once the event at t=10
\* is processed generated=2, processed=1, rejected=0; the buffer is empty
\* throughout.
C9_ScenarioAsClaimed ==
    C9_Scenario =>
        /\ buffer.orders = <<>>
        /\ C9_Arrived(0, 5)
        /\ C9_Arrived(1, 10)
        /\ \A k \in 1..Len(last_events) :
               /\ last_events[k].etype = "ORDER_TO_OPERATOR" => last_events[k].wait_time = 0
               /\ (last_events[k].etype = "OPERATOR_FREE" /\ last_events[k].order_id = 0)
                      => last_events[k].time = 8
        /\ time = 10 =>
               (total_generated = 2 /\ total_processed = 1 /\ total_rejected = 0)

C9_ExpectedLog ==
    <<Event(0, "ORDER_GENERATED", 0, 0, -1, -1, 0),
      Event(0, "ORDER_TO_OPERATOR", 0, 0, 0, -1, 0),
      Event(3, "OPERATOR_FREE", 0, 0, 0, -1, 0),
      Event(5, "ORDER_GENERATED", 0, 1, -1, -1, 0),
      Event(5, "ORDER_TO_OPERATOR", 0, 1, 0, -1, 0),
      Event(8, "OPERATOR_FREE", 0, 1, 0, -1, 0),
      Event(10, "ORDER_GENERATED", 0, 2, -1, -1, 0),
      Event(10, "ORDER_TO_OPERATOR", 0, 2, 0, -1, 0)>>

\* C9 amended: order 0 arrives at t=0 and starts with wait 0, the server
\* completes at t=3 and idles, order 1 arrives at t=5 and starts with wait
\* 0, the server completes at t=8 and idles, order 2 arrives at t=10 and
\* starts with wait 0; once the event at t=10 is processed generated=3,
\* processed=2, rejected=0; the buffer is empty throughout.
C9_ScenarioFromTimeZero ==
    C9_Scenario =>
        /\ buffer.orders = <<>>
        /\ \A k \in 1..Len(last_events) :
               k <= Len(C9_ExpectedLog) => last_events[k] = C9_ExpectedLog[k]
        /\ time = 10 =>
               (total_generated = 3 /\ total_processed = 2 /\ total_rejected = 0)

\* The event at t=10 has been processed in the scenario.
C9_Witness ==
    C9_Scenario /\ time = 10 /\ Len(last_events) = 8 /\ Len(draws) = 3

----------------------------------------------------------------------------
EngineUnchanged ==
    UNCHANGED <<time, buffer, operators, restaurants, event_queue, last_events,
                total_generated, total_processed, total_rejected, wait_times>>

\* C10: step() on an empty calendar returns false and changes nothing; an
\* engine with zero sources has an empty calendar from the start; with at
\* least one source the calendar is never empty and step() always returns
\* true.
C10_EmptyCalendar ==
    [][~init_error =>
          /\ event_queue = <<>> => (step_result' = "False" /\ EngineUnchanged)
          /\ args.num_restaurants = 0 => event_queue = <<>>
          /\ args.num_restaurants >= 1 =>
                 (event_queue # <<>> /\ event_queue' # <<>> /\ step_result' = "True")]_vars

\* The same, for the step() calls that return.
C10_EmptyCalendarWhenReturned ==
    [][~init_error =>
          /\ event_queue = <<>> => (step_result' = "False" /\ EngineUnchanged)
          /\ args.num_restaurants = 0 => event_queue = <<>>
          /\ args.num_restaurants >= 1 =>
                 /\ event_queue # <<>> /\ event_queue' # <<>>
                 /\ step_result' \in {"True", "TypeError"}]_vars

----------------------------------------------------------------------------
\* index of the idle server with the smallest operator_id (some server is idle)
LowestIdle ==
    LET idle == {i \in 1..Len(operators) : ~operators[i].busy}
    IN  CHOOSE i \in idle : \A j \in idle : operators[i].operator_id <= operators[j].operator_id

\* the arrival that has just been processed went to the idle server with the
\* smallest id, with wait_time 0, and the buffer was not touched
ToLowestIdle ==
    LET i == LowestIdle
        n == Len(last_events)
    IN  /\ operators'[i].busy
        /\ operators'[i].current_order = <<ArrivedOrder>>
        /\ \A j \in 1..Len(operators) : j # i => operators'[j] = operators[j]
        /\ buffer' = buffer
        /\ total_rejected' = total_rejected
        /\ Len(last_events') = n + 2
        /\ last_events'[n + 2].etype = "ORDER_TO_OPERATOR"
        /\ last_events'[n + 2].operator_id = operators[i].operator_id
        /\ last_events'[n + 2].restaurant_id = ArrivedOrder.restaurant_id
        /\ last_events'[n + 2].order_id = ArrivedOrder.order_id
        /\ last_events'[n + 2].wait_time = 0

\* the buffer was tried: the order was inserted or rejected
BufferTried ==
    \/ buffer' # buffer
    \/ total_rejected' # total_rejected
    \/ LoggedAfterPop \in {"ORDER_TO_BUFFER", "ORDER_REJECTED"}

\* C12: when an arrival is processed and at least one server is idle, the
\* order goes to the idle server with the smallest id with wait_time 0 and
\* is not placed in the buffer; the buffer is tried only when no server is
\* idle.
C12_LowestIdleServer ==
    [][Arrival =>
          /\ ~NoIdleOperator => ToLowestIdle
          /\ BufferTried => NoIdleOperator]_vars

\* the same for the steps in which the scheduling of the next arrival did
\* not raise
C12_LowestIdleServerWhenScheduled ==
    [][(Arrival /\ (step_result' = "TypeError" => LoggedAfterPop # "none")) =>
          /\ ~NoIdleOperator => ToLowestIdle
          /\ BufferTried => NoIdleOperator]_vars

\* an arrival went to the second server while the first one was busy
C12_Witness ==
    LET n == Len(last_events)
    IN  /\ n >= 2
        /\ last_events[n - 1].etype = "ORDER_GENERATED"
        /\ last_events[n].etype = "ORDER_TO_OPERATOR"
        /\ last_events[n].operator_id = 1
        /\ operators[1].busy
        /\ operators[1].current_order[1].timestamp < last_events[n].time

----------------------------------------------------------------------------
\* C13: when a server completes and the buffer holds an order of the
\* server's affinity source, the server takes the earliest-inserted order
\* of that source, whatever other sources are buffered, and its affinity
\* does not change.
C13_BatchContinuation ==
    [][Completion =>
          LET i == PoppedEvent.operator_id + 1
              aff == operators[i].batch_restaurant_id
          IN  (aff # <<>> /\ EarliestOf(buffer.orders, aff[1]) # 0) =>
                  LET k == EarliestOf(buffer.orders, aff[1])
                  IN  /\ operators'[i].busy
                      /\ operators'[i].current_order = <<buffer.orders[k]>>
                      /\ operators'[i].batch_restaurant_id = aff
                      /\ buffer'.orders = WithoutEntry(buffer.orders, k)]_vars

\* A server has continued its batch while an order of a lower source id
\* that had arrived earlier stays in the buffer.
C13_Witness ==
    LET n == Len(last_events)
    IN  /\ n >= 2
        /\ last_events[n - 1].etype = "OPERATOR_FREE"
        /\ last_events[n].etype = "ORDER_TO_OPERATOR"
        /\ last_events[n].restaurant_id = last_events[n - 1].restaurant_id
        /\ \E k \in 1..Len(buffer.orders) :
               /\ buffer.orders[k].restaurant_id < last_events[n].restaurant_id
               /\ buffer.orders[k].timestamp < last_events[n].time - last_events[n].wait_time

----------------------------------------------------------------------------
\* server i begins serving an order in the step that has just been taken
BeginsService(i) ==
    /\ operators'[i].busy
    /\ operators'[i].current_order # <<>>
    /\ operators'[i].current_order # operators[i].current_order

\* C14: a server's batch affinity changes only in a step in which that
\* server begins serving an order, and then it is that order's source;
\* a release and an idle period leave it unchanged; the affinity of a busy
\* server is the source of its current order.
C14_AffinityFrame ==
    [][/\ Len(operators') = Len(operators)
       /\ \A i \in 1..Len(operators) :
              /\ operators'[i].batch_restaurant_id # operators[i].batch_restaurant_id =>
                     BeginsService(i)
              /\ ~operators'[i].busy =>
                     operators'[i].batch_restaurant_id = operators[i].batch_restaurant_id
              /\ operators'[i].busy =>
                     operators'[i].batch_restaurant_id =
                         <<operators'[i].current_order[1].restaurant_id>>]_vars

\* A released server is idle and keeps its affinity, next to a busy server
\* that has served another source before its current one.
C14_Witness ==
    /\ \E i \in 1..Len(operators) :
           /\ ~operators[i].busy
           /\ operators[i].batch_restaurant_id # <<>>
    /\ \E j \in 1..Len(operators) :
           /\ operators[j].busy
           /\ \E k \in 1..Len(last_events) :
                  /\ last_events[k].etype = "ORDER_TO_OPERATOR"
                  /\ last_events[k].operator_id = operators[j].operator_id
                  /\ <<last_events[k].restaurant_id>> # operators[j].batch_restaurant_id

----------------------------------------------------------------------------
\* the order of log entry e is in the buffer or in service
InSystem(e, orders, ops) ==
    \/ \E k \in 1..Len(orders) :
           /\ orders[k].restaurant_id = e.restaurant_id
           /\ orders[k].order_id = e.order_id
    \/ \E i \in 1..Len(ops) :
           /\ ops[i].current_order # <<>>
           /\ ops[i].current_order[1].restaurant_id = e.restaurant_id
           /\ ops[i].current_order[1].order_id = e.order_id

\* C15: a rejected arrival leaves the buffer, every server and the
\* processed count unchanged and adds exactly one to the rejected count;
\* a rejected order is never in the buffer or in service afterwards.
C15_RejectionFrame ==
    [][/\ (LoggedAfterPop = "ORDER_REJECTED" \/ total_rejected' # total_rejected) =>
              /\ Arrival
              /\ LoggedAfterPop = "ORDER_REJECTED"
              /\ buffer' = buffer
              /\ operators' = operators
              /\ total_processed' = total_processed
              /\ total_rejected' = total_rejected + 1
       /\ \A k \in 1..Len(last_events') :
              last_events'[k].etype = "ORDER_REJECTED" =>
                  /\ ~InSystem(last_events'[k], buffer'.orders, operators')
                  /\ \A j \in 1..Len(last_events') :
                         (/\ last_events'[j].restaurant_id = last_events'[k].restaurant_id
                          /\ last_events'[j].order_id = last_events'[k].order_id) =>
                             last_events'[j].etype \in {"ORDER_GENERATED", "ORDER_REJECTED"}]_vars

\* An arrival has just been rejected with orders in the buffer, and an
\* order rejected earlier was followed by a completion.
C15_Witness ==
    LET n == Len(last_events)
    IN  /\ n >= 2
        /\ last_events[n].etype = "ORDER_REJECTED"
        /\ buffer.orders # <<>>
        /\ \E k \in 1..n : \E j \in (k + 1)..n :
               /\ last_events[k].etype = "ORDER_REJECTED"
               /\ last_events[j].etype = "OPERATOR_FREE"

----------------------------------------------------------------------------
\* the log entries a and b are about the same order
SameOrder(a, b) == a.restaurant_id = b.restaurant_id /\ a.order_id = b.order_id

\* the waits of the completions logged for source r, in log order
CompletedWaits(r) ==
    LET OfSource(e) == e.etype = "OPERATOR_FREE" /\ e.restaurant_id = r
        done == SelectSeq(last_events, OfSource)
    IN  [k \in 1..Len(done) |-> done[k].wait_time]

RECURSIVE SampleCount(_, _)
SampleCount(samples, n) ==
    IF n = 0 THEN 0 ELSE Len(samples[n]) + SampleCount(samples, n - 1)

\* C16: the wait recorded for a completed order is its service start time
\* minus its arrival time, is not negative, is 0 when the order was
\* assigned on arrival, and is appended to the samples of the order's own
\* source; the samples of all sources together number total_processed.
C16_WaitSamples ==
    LET n == Len(last_events)
    IN  /\ \A f \in 1..n :
               last_events[f].etype = "OPERATOR_FREE" =>
                   \E g \in 1..n : \E s \in (g + 1)..n :
                       /\ s < f
                       /\ last_events[g].etype = "ORDER_GENERATED"
                       /\ last_events[s].etype = "ORDER_TO_OPERATOR"
                       /\ SameOrder(last_events[g], last_events[f])
                       /\ SameOrder(last_events[s], last_events[f])
                       /\ last_events[s].operator_id = last_events[f].operator_id
                       /\ last_events[f].wait_time = last_events[s].time - last_events[g].time
                       /\ last_events[f].wait_time >= 0
                       /\ s = g + 1 => last_events[f].wait_time = 0
        /\ \A r \in 1..Len(wait_times) : wait_times[r] = CompletedWaits(r - 1)
        /\ SampleCount(wait_times, Len(wait_times)) = total_processed

\* Two sources have samples, one of an order assigned on arrival and one
\* of an order that waited in the buffer.
C16_Witness ==
    /\ \E r \in 1..Len(wait_times) : \E k \in 1..Len(wait_times[r]) :
           wait_times[r][k] > 0
    /\ \E r \in 1..Len(wait_times) : \E k \in 1..Len(wait_times[r]) :
           wait_times[r][k] = 0
    /\ Cardinality({r \in 1..Len(wait_times) : wait_times[r] # <<>>}) >= 2

----------------------------------------------------------------------------
\* the orders waiting in the buffer followed by the orders in service
HeldOrders ==
    LET busy == {i \in 1..Len(operators) : operators[i].current_order # <<>>}
        InService[S \in SUBSET busy] ==
            IF S = {} THEN <<>>
            ELSE LET i == CHOOSE x \in S : \A y \in S : x <= y
                 IN  <<operators[i].current_order[1]>> \o InService[S \ {i}]
    IN  buffer.orders \o InService[busy]

\* number of log entries of the given type about the order of entry e
LogCount(etype, e) ==
    Cardinality({k \in 1..Len(last_events) :
                     last_events[k].etype = etype /\ SameOrder(last_events[k], e)})

\* C18: an order, identified by (source id, order id), is served at most
\* once and is not lost while it waits: no order is twice among the buffer
\* entries and the servers' current orders, a completed or rejected order
\* is not among them, and an order that entered the buffer or a server is
\* still there until it is taken or completed.
C18_NoDuplicateNoLoss ==
    LET held == HeldOrders
        n == Len(last_events)
    IN  /\ \A a, b \in 1..Len(held) : SameOrder(held[a], held[b]) => a = b
        /\ \A a \in 1..Len(held) :
               /\ LogCount("OPERATOR_FREE", held[a]) = 0
               /\ LogCount("ORDER_REJECTED", held[a]) = 0
        /\ \A k \in 1..n :
               /\ LogCount("ORDER_TO_OPERATOR", last_events[k]) <= 1
               /\ LogCount("OPERATOR_FREE", last_events[k]) <= 1
               /\ last_events[k].etype = "ORDER_TO_BUFFER" =>
                      \/ LogCount("ORDER_TO_OPERATOR", last_events[k]) = 1
                      \/ \E a \in 1..Len(buffer.orders) :
                             SameOrder(buffer.orders[a], last_events[k])
               /\ last_events[k].etype = "ORDER_TO_OPERATOR" =>
                      \/ LogCount("OPERATOR_FREE", last_events[k]) = 1
                      \/ \E i \in 1..Len(operators) :
                             /\ operators[i].current_order # <<>>
                             /\ operators[i].operator_id = last_events[k].operator_id
                             /\ SameOrder(operators[i].current_order[1], last_events[k])

\* Two orders wait in the buffer and one is in service after an order has
\* been taken from the buffer, one has been completed and one rejected.
C18_Witness ==
    /\ Len(buffer.orders) >= 2
    /\ \E i \in 1..Len(operators) : operators[i].current_order # <<>>
    /\ \E k \in 1..Len(last_events) :
           /\ last_events[k].etype = "ORDER_TO_OPERATOR"
           /\ last_events[k].wait_time > 0
    /\ \E k \in 1..Len(last_events) : last_events[k].etype = "ORDER_REJECTED"
    /\ total_processed >= 1

----------------------------------------------------------------------------
\* C19: the dispatch is work-conserving: between steps, whenever the buffer
\* is not empty every server is busy.
C19_WorkConserving ==
    buffer.orders # <<>> => \A i \in 1..Len(operators) : operators[i].busy

\* Orders wait while both servers are busy, after a completion that found
\* the buffer empty and left its server idle for a while.
C19_Witness ==
    /\ Len(operators) = 2
    /\ operators[1].busy /\ operators[2].busy
    /\ buffer.orders # <<>>
    /\ \E k \in 1..(Len(last_events) - 1) :
           /\ last_events[k].etype = "OPERATOR_FREE"
           /\ last_events[k + 1].etype # "ORDER_TO_OPERATOR"

----------------------------------------------------------------------------
\* positions of the calendar holding an event of the given type
Pending(etype) == {k \in 1..Len(event_queue) : event_queue[k].etype = etype}

\* the calendar holds exactly one arrival per source, the one with order id
\* generated - 1, exactly one completion per busy server, carrying the
\* server's id and its current order, and nothing else
CalendarShape ==
    /\ \A r \in 1..Len(restaurants) :
           \E k \in Pending("ORDER_GENERATED") :
               /\ event_queue[k].restaurant_id = restaurants[r].restaurant_id
               /\ event_queue[k].order_id = restaurants[r].generated - 1
               /\ \A j \in Pending("ORDER_GENERATED") :
                      event_queue[j].restaurant_id = restaurants[r].restaurant_id => j = k
    /\ \A i \in 1..Len(operators) :
           IF operators[i].busy
           THEN \E k \in Pending("OPERATOR_FREE") :
                    /\ event_queue[k].operator_id = operators[i].operator_id
                    /\ operators[i].current_order # <<>>
                    /\ event_queue[k].restaurant_id = operators[i].current_order[1].restaurant_id
                    /\ event_queue[k].order_id = operators[i].current_order[1].order_id
                    /\ \A j \in Pending("OPERATOR_FREE") :
                           event_queue[j].operator_id = operators[i].operator_id => j = k
           ELSE \A j \in Pending("OPERATOR_FREE") :
                    event_queue[j].operator_id # operators[i].operator_id
    /\ Len(event_queue) = Len(restaurants) + BusyCount

\* C20: in every state between steps the calendar holds exactly one pending
\* arrival per source, with order id generated - 1, exactly one pending
\* completion per busy server, carrying the server's id and the source and
\* id of its current order, and none for an idle server.
C20_CalendarShape == ~init_error => CalendarShape

\* the same for the states in which every step() so far has returned
C20_CalendarShapeWhenReturned ==
    (~init_error /\ step_result # "TypeError") => CalendarShape

----------------------------------------------------------------------------
\* number of pending calendar events of the given type about order (r, k)
QueueCount(etype, r, k) ==
    Cardinality({j \in 1..Len(event_queue) :
                     /\ event_queue[j].etype = etype
                     /\ event_queue[j].restaurant_id = r
                     /\ event_queue[j].order_id = k})

\* number of popped (logged) events of the given type about order (r, k)
PoppedCount(etype, r, k) ==
    Cardinality({j \in 1..Len(last_events) :
                     /\ last_events[j].etype = etype
                     /\ last_events[j].restaurant_id = r
                     /\ last_events[j].order_id = k})

\* every event pushed so far, the arrivals 0..generated-1 of each source
\* and the completion of every order given to a server, is either still in
\* the calendar or has been popped and processed, and that exactly once
EveryEventKept ==
    /\ \A r \in 1..Len(restaurants) : \A k \in 0..(restaurants[r].generated - 1) :
           QueueCount("ORDER_GENERATED", restaurants[r].restaurant_id, k)
               + PoppedCount("ORDER_GENERATED", restaurants[r].restaurant_id, k) = 1
    /\ \A s \in 1..Len(last_events) :
           last_events[s].etype = "ORDER_TO_OPERATOR" =>
               QueueCount("OPERATOR_FREE", last_events[s].restaurant_id, last_events[s].order_id)
                   + PoppedCount("OPERATOR_FREE", last_events[s].restaurant_id,
                                 last_events[s].order_id) = 1

\* C17: every event pushed onto the calendar is popped and processed
\* exactly once and none is removed unprocessed; here the part a finite run
\* can break: at any moment a pushed event is pending or has been
\* processed, once.
C17_NoEventRemovedUnprocessed == EveryEventKept

\* the same for the states in which every step() so far has returned
C17_NoEventRemovedUnprocessedWhenReturned ==
    step_result # "TypeError" => EveryEventKept

----------------------------------------------------------------------------
(* Two engines built with the same arguments and fed the same draws.
   The variables hold the engine whose turn it is, twin holds the other
   one. Both engines are in the same state when twin = <<>>. *)

\* one call of step() in which random.expovariate, if called, returns dt
StepWith(dt) ==
    \/ step_empty
    \/ step_pop_raises
    \/ step_ORDER_GENERATED(dt)
    \/ step_OPERATOR_FREE(dt)

\* the state of the engine held by the variables
Engine ==
    [time |-> time, buffer |-> buffer, operators |-> operators,
     restaurants |-> restaurants, event_queue |-> event_queue,
     last_events |-> last_events, total_generated |-> total_generated,
     total_processed |-> total_processed, total_rejected |-> total_rejected,
     wait_times |-> wait_times, step_result |-> step_result, draws |-> draws]

\* the first engine takes a step; the second one is still in the state
\* both were in
step_first ==
    /\ twin = <<>>
    /\ \E dt \in Draws : StepWith(dt)
    /\ twin' = <<[engine |-> Engine, turn |-> "behind"]>>

\* the turn passes to the second engine: the variables now hold it and
\* twin holds the first engine, one step ahead
pass_turn ==
    /\ twin # <<>>
    /\ twin[1].turn = "behind"
    /\ twin' = <<[engine |-> Engine, turn |-> "ahead"]>>
    /\ time' = twin[1].engine.time
    /\ buffer' = twin[1].engine.buffer
    /\ operators' = twin[1].engine.operators
    /\ restaurants' = twin[1].engine.restaurants
    /\ event_queue' = twin[1].engine.event_queue
    /\ last_events' = twin[1].engine.last_events
    /\ total_generated' = twin[1].engine.total_generated
    /\ total_processed' = twin[1].engine.total_processed
    /\ total_rejected' = twin[1].engine.total_rejected
    /\ wait_times' = twin[1].engine.wait_times
    /\ step_result' = twin[1].engine.step_result
    /\ draws' = twin[1].engine.draws
    /\ UNCHANGED <<args, init_error>>

\* the second engine takes its step, its random.expovariate returning what
\* the first engine's returned
step_second ==
    /\ twin # <<>>
    /\ twin[1].turn = "ahead"
    /\ \E dt \in Draws : StepWith(dt) /\ draws' = twin[1].engine.draws
    /\ twin' = <<[engine |-> twin[1].engine, turn |-> "level"]>>

\* both engines have taken the same number of steps and are compared; when
\* they agree the run goes on from their common state
compare ==
    /\ twin # <<>>
    /\ twin[1].turn = "level"
    /\ Engine = twin[1].engine
    /\ twin' = <<>>
    /\ UNCHANGED <<args, init_error, time, buffer, operators, restaurants,
                   event_queue, last_events, total_generated, total_processed,
                   total_rejected, wait_times, step_result, draws>>

NextTwin == step_first \/ pass_turn \/ step_second \/ compare

\* the pairs are built with one or two servers and a buffer of capacity
\* 0 or 2
InitTwin == Init /\ ~init_error /\ args.num_operators >= 1 /\ args.buffer_cap \in {0, 2}

SpecTwin == InitTwin /\ [][NextTwin]_vars

\* C11: the engine is deterministic: two engines with the same parameters
\* and the same sequence of service-time draws, stepped the same number of
\* times, have identical logs, clocks, buffers, servers, counters and
\* calendars after every step.
C11_Deterministic ==
    (twin # <<>> /\ twin[1].turn = "level") => Engine = twin[1].engine

\* Both engines have assigned an arrival that found two servers idle, after
\* an earlier draw: the place where a choice among servers could differ.
C11_Witness ==
    LET n == Len(last_events)
    IN  /\ twin # <<>>
        /\ twin[1].turn = "level"
        /\ n >= 2
        /\ Len(draws) >= 2
        /\ last_events[n - 1].etype = "ORDER_GENERATED"
        /\ last_events[n].etype = "ORDER_TO_OPERATOR"
        /\ Len(operators) = 2
        /\ operators[1].busy
        /\ ~operators[2].busy
        /\ operators[1].current_order[1].order_id = last_events[n].order_id
        /\ operators[1].current_order[1].restaurant_id = last_events[n].restaurant_id

====
